---- MODULE Spec2Model ----
(***************************************************************************)
(* Model of the YogAI frame-to-verdict pipeline:                           *)
(*   yoga_backend/pose_detectors/{base_detector,plank_detector,__init__}   *)
(*   yoga_backend/pose_detector.py (YogaPoseDetector, get_detector)        *)
(*   yoga_backend/views.py (PoseDetectionView.post)                        *)
(* Probabilities are integer percents (0.6 is 60, 0.82 is 82).  Python's   *)
(* None is the string "NONE"; a dictionary is a record together with the   *)
(* set `keys' of the keys it really holds.                                 *)
(***************************************************************************)
EXTENDS Integers, Sequences, FiniteSets, TLC

VARIABLES
    previous_stage,     \* BasePoseDetector.previous_stage of the detector
    results,            \* BasePoseDetector.results (the event list)
    has_error,          \* BasePoseDetector.has_error
    detect_ret,         \* outcome of detect() in the last call
    last_in,            \* inputs of the last detector-level call
    hist,               \* stages classified by the detector since construction/reset
    emitted,            \* positions of hist at which an event was appended
    pre_clear,          \* previous_stage right before the last clear_results()
    mp_ok,              \* environment: `import mediapipe' works
    detector_instance,  \* pose_detector._detector_instance is not None
    current_pose,       \* YogaPoseDetector.current_pose
    current_detector,   \* YogaPoseDetector.current_detector (0 is None, else instance id)
    n_constructed,      \* number of PlankDetector instances constructed so far
    verdict,            \* result of the last process_frame()
    response,           \* HTTP response of the last PoseDetectionView.post
    session,            \* the YogaSession row with id 1
    call,               \* inputs and environment outcomes of the last call
    threads,            \* per request thread: program position and locals
    singleton,          \* pose_detector._detector_instance and the instances built
    pool,               \* the detectors handed out by get_pose_detector, by id
    acted,              \* the last registry-level operation and its detector
    important_landmarks,\* PlankDetector.important_landmarks (the configured names)
    row,                \* outcome of the last extract_important_keypoints()
    built_for,          \* name given to get_pose_detector for the bound detector
    lifecycle,          \* sessions started and ended through the session views
    posts,              \* per request thread inside PoseDetectionView.post: position, locals
    served              \* detect requests answered for the existing session, by verdict

detVars == <<previous_stage, results, has_error>>
ghostDetVars == <<detect_ret, last_in, hist, emitted, pre_clear>>
orchVars == <<mp_ok, detector_instance, current_pose, current_detector,
              n_constructed, verdict, response, session, call>>
extVars == <<threads, singleton, pool, acted>>
featVars == <<important_landmarks, row>>
sessVars == <<lifecycle, posts, served>>
vars == <<detVars, ghostDetVars, orchVars, extVars, featVars, built_for, sessVars>>

----------------------------------------------------------------------------
(* Bounds *)
MaxFrames == 6          \* classified frames recorded per detector run
MaxEvents == 2          \* events a detector bound by the orchestrator may hold
MaxDetectors == 2       \* detector instances the orchestrator may construct
MaxSessionFrames == 2   \* frames folded into the session row

(* Program constant: PlankDetector.PREDICTION_PROBABILITY_THRESHOLD = 0.6 *)
PREDICTION_PROBABILITY_THRESHOLD == 60

Labels == {"C", "L", "H", "X"}          \* "X": any label other than C, L, H
Probs == {59, 82}                       \* max_prob values seen by the pipeline
ProbsDetector == {59, 60}               \* max_prob values fed to the lone detector
Stages == {"correct", "low back", "high back", "unknown"}
ErrorStages == {"low back", "high back"}
DetectOutcomes == {"ok", "early", "draw"}
    \* "early": an exception before the stage decision (feature building,
    \*          scaling, prediction); "draw": an exception in the
    \*          visualisation code after the stage management.

----------------------------------------------------------------------------
(* The detector: BasePoseDetector / PlankDetector *)

\* BasePoseDetector.__init__: the three tracker fields
InitTracker == [previous_stage |-> "unknown", results |-> <<>>, has_error |-> FALSE]

\* mutant: the threshold is not applied
StageNoThreshold(predicted_class, max_prob) ==
    IF predicted_class = "C" THEN "correct"
    ELSE IF predicted_class = "L" THEN "low back"
    ELSE IF predicted_class = "H" THEN "high back"
    ELSE "unknown"

\* PlankDetector.detect, "Evaluate prediction"
EvaluatePrediction(predicted_class, max_prob) ==
    IF predicted_class = "C" /\ max_prob >= PREDICTION_PROBABILITY_THRESHOLD
    THEN "correct"
    ELSE IF predicted_class = "L" /\ max_prob >= PREDICTION_PROBABILITY_THRESHOLD
    THEN "low back"
    ELSE IF predicted_class = "H" /\ max_prob >= PREDICTION_PROBABILITY_THRESHOLD
    THEN "high back"
    ELSE "unknown"

\* mutant: level-triggered, an event for every error-stage frame
StageManagementLevel(t, current_stage, timestamp, max_prob) ==
    [previous_stage |-> current_stage,
     results |-> IF current_stage \in ErrorStages
                 THEN Append(t.results, [stage |-> current_stage,
                                         timestamp |-> timestamp,
                                         probability |-> max_prob])
                 ELSE t.results,
     has_error |-> current_stage \in ErrorStages]

\* mutant: a non-error stage does not clear has_error
StageManagementSticky(t, current_stage, timestamp, max_prob) ==
    LET changed == t.previous_stage # current_stage IN
    [previous_stage |-> current_stage,
     results |-> IF current_stage \in ErrorStages /\ changed
                 THEN Append(t.results, [stage |-> current_stage,
                                         timestamp |-> timestamp,
                                         probability |-> max_prob])
                 ELSE t.results,
     has_error |-> IF current_stage \in ErrorStages /\ changed
                   THEN TRUE ELSE t.has_error]

\* mutant: a frame in a non-error stage also empties the history
StageManagementForgets(t, current_stage, timestamp, max_prob) ==
    [previous_stage |-> current_stage,
     results |-> IF current_stage \in ErrorStages
                 THEN IF t.previous_stage # current_stage
                      THEN Append(t.results, [stage |-> current_stage,
                                              timestamp |-> timestamp,
                                              probability |-> max_prob])
                      ELSE t.results
                 ELSE <<>>,
     has_error |-> IF current_stage \in ErrorStages
                   THEN IF t.previous_stage # current_stage
                        THEN TRUE
                        ELSE t.has_error
                   ELSE FALSE]

\* mutant: every change of stage is recorded, whatever the new stage
StageManagementAnyStage(t, current_stage, timestamp, max_prob) ==
    [previous_stage |-> current_stage,
     results |-> IF t.previous_stage # current_stage
                 THEN Append(t.results, [stage |-> current_stage,
                                         timestamp |-> timestamp,
                                         probability |-> max_prob])
                 ELSE t.results,
     has_error |-> IF current_stage \in ErrorStages
                   THEN IF t.previous_stage # current_stage
                        THEN TRUE
                        ELSE t.has_error
                   ELSE FALSE]

\* PlankDetector.detect, "Stage management" and the previous_stage update
StageManagement(t, current_stage, timestamp, max_prob) ==
    [previous_stage |-> current_stage,
     results |-> IF current_stage \in ErrorStages
                 THEN IF t.previous_stage # current_stage
                      THEN Append(t.results, [stage |-> current_stage,
                                              timestamp |-> timestamp,
                                              probability |-> max_prob])
                      ELSE t.results
                 ELSE t.results,
     has_error |-> IF current_stage \in ErrorStages
                   THEN IF t.previous_stage # current_stage
                        THEN TRUE
                        ELSE t.has_error
                   ELSE FALSE]

NoDetect == [status |-> "none", stage |-> "", is_correct |-> FALSE,
             probability |-> 0, has_error |-> FALSE]
RaisedDetect == [status |-> "raised", stage |-> "", is_correct |-> FALSE,
                 probability |-> 0, has_error |-> FALSE]

\* mutant: is_correct is taken from the raw label, not from the stage
DetectCorrectByLabel(t, predicted_class, max_prob, timestamp, out) ==
    LET current_stage == EvaluatePrediction(predicted_class, max_prob)
        t2 == StageManagement(t, current_stage, timestamp, max_prob)
    IN  IF out = "early"
        THEN [tracker |-> t, classified |-> FALSE, stage |-> "", ret |-> RaisedDetect]
        ELSE IF out = "draw"
        THEN [tracker |-> t2, classified |-> TRUE, stage |-> current_stage,
              ret |-> RaisedDetect]
        ELSE [tracker |-> t2, classified |-> TRUE, stage |-> current_stage,
              ret |-> [status |-> "returned",
                       stage |-> current_stage,
                       is_correct |-> (predicted_class = "C"),
                       probability |-> max_prob,
                       has_error |-> t2.has_error]]

\* PlankDetector.detect as a whole: the tracker after the call and what the
\* call gives back (a dictionary, or the re-raised exception).
Detect(t, predicted_class, max_prob, timestamp, out) ==
    LET current_stage == EvaluatePrediction(predicted_class, max_prob)
        t2 == StageManagement(t, current_stage, timestamp, max_prob)
    IN  IF out = "early"
        THEN [tracker |-> t, classified |-> FALSE, stage |-> "", ret |-> RaisedDetect]
        ELSE IF out = "draw"
        THEN [tracker |-> t2, classified |-> TRUE, stage |-> current_stage,
              ret |-> RaisedDetect]
        ELSE [tracker |-> t2, classified |-> TRUE, stage |-> current_stage,
              ret |-> [status |-> "returned",
                       stage |-> current_stage,
                       is_correct |-> (current_stage = "correct"),
                       probability |-> max_prob,
                       has_error |-> t2.has_error]]

\* mutant: the reset forgets to clear previous_stage
ClearResultsKeepStage(t) ==
    [previous_stage |-> t.previous_stage, results |-> <<>>, has_error |-> FALSE]

\* BasePoseDetector.clear_results
ClearResults(t) ==
    [previous_stage |-> "unknown", results |-> <<>>, has_error |-> FALSE]

Tracker == [previous_stage |-> previous_stage, results |-> results,
            has_error |-> has_error]

----------------------------------------------------------------------------
(* Dictionaries returned to the caller *)

NoVerdict == [keys |-> {}, success |-> FALSE, message |-> "", error |-> "",
              pose |-> "", stage |-> "", is_correct |-> FALSE, confidence |-> 0,
              has_error |-> FALSE, matches_target |-> FALSE, mode |-> ""]

NoResponse == [status |-> 0, body |-> NoVerdict]

NoFrame == [kind |-> "none", parts |-> <<>>]

NoCall == [op |-> "init", frame |-> NoFrame, target |-> "NONE", passed |-> "NONE",
           session_id |-> 0, cons |-> "", ext |-> ""]

NoInput == [op |-> "init", label |-> "", prob |-> 0, out |-> "", appended |-> FALSE]

\* YogaSession field defaults (models.py); `detections' counts the
\* PoseDetection rows of the session.
NewSession == [total_frames |-> 0, correct_frames |-> 0, accuracy |-> 0,
               detections |-> 0]

----------------------------------------------------------------------------
(* The registry: pose_detectors/__init__.py *)

POSE_DETECTORS == {"plank"}

\* str.lower() on the pose names used here
Lower(name) ==
    CASE name = "PLANK" -> "plank"
      [] name = "Plank" -> "plank"
      [] name = "TREE" -> "tree"
      [] OTHER -> name

\* Python truthiness of an optional string argument
Truthy(x) == x \notin {"NONE", ""}

IsPoseSupported(pose_name) == Lower(pose_name) \in POSE_DETECTORS

\* mutant: the registry is looked up with the name as given
GetPoseDetectorCaseSensitive(pose_name, id, cons) ==
    IF pose_name \notin POSE_DETECTORS
    THEN [raised |-> TRUE, error |-> "ValueError", id |-> 0, tracker |-> InitTracker]
    ELSE IF cons = "ok"
    THEN [raised |-> FALSE, error |-> "", id |-> id, tracker |-> InitTracker]
    ELSE [raised |-> TRUE, error |-> "Exception", id |-> 0, tracker |-> InitTracker]

\* get_pose_detector(pose_name): a new instance (identified by `id') in the
\* state BasePoseDetector.__init__ gives it, or an exception when the pose is
\* unknown or the constructor fails (mediapipe or model files unavailable).
GetPoseDetector(pose_name, id, cons) ==
    IF Lower(pose_name) \notin POSE_DETECTORS
    THEN [raised |-> TRUE, error |-> "ValueError", id |-> 0, tracker |-> InitTracker]
    ELSE IF cons = "ok"
    THEN [raised |-> FALSE, error |-> "", id |-> id, tracker |-> InitTracker]
    ELSE [raised |-> TRUE, error |-> "Exception", id |-> 0, tracker |-> InitTracker]

----------------------------------------------------------------------------
(* The orchestrator: YogaPoseDetector in pose_detector.py.  Its state is   *)
(* the record s = [current_pose, current_detector, n_constructed, tracker]; *)
(* tracker is the state of the bound detector (InitTracker when none is).  *)

pose_classes == {"plank", "tree", "warrior2", "downdog", "goddess"}

\* mutant: the detector is rebuilt on every call that names a pose
SetTargetPoseAlwaysRebind(s, target_pose, cons) ==
    IF target_pose = "NONSTR"
    THEN [raised |-> TRUE, s |-> s]
    ELSE LET pose_name == Lower(target_pose) IN
         IF IsPoseSupported(pose_name)
         THEN LET g == GetPoseDetector(pose_name, s.n_constructed + 1, cons)
              IN  IF g.raised
                  THEN [raised |-> FALSE,
                        s |-> [s EXCEPT !.current_detector = 0,
                                        !.tracker = InitTracker]]
                  ELSE [raised |-> FALSE,
                        s |-> [current_pose |-> pose_name,
                               current_detector |-> g.id,
                               n_constructed |-> s.n_constructed + 1,
                               tracker |-> g.tracker]]
         ELSE [raised |-> FALSE,
               s |-> [s EXCEPT !.current_detector = 0,
                               !.tracker = InitTracker,
                               !.current_pose = pose_name]]

\* mutant: the new detector inherits the tracker of the one it replaces
SetTargetPoseCarryOver(s, target_pose, cons) ==
    IF target_pose = "NONSTR"
    THEN [raised |-> TRUE, s |-> s]
    ELSE LET pose_name == Lower(target_pose) IN
         IF pose_name # s.current_pose
         THEN IF IsPoseSupported(pose_name)
              THEN LET g == GetPoseDetector(pose_name, s.n_constructed + 1, cons)
                   IN  IF g.raised
                       THEN [raised |-> FALSE, s |-> [s EXCEPT !.current_detector = 0]]
                       ELSE [raised |-> FALSE,
                             s |-> [current_pose |-> pose_name,
                                    current_detector |-> g.id,
                                    n_constructed |-> s.n_constructed + 1,
                                    tracker |-> s.tracker]]
              ELSE [raised |-> FALSE,
                    s |-> [s EXCEPT !.current_detector = 0,
                                    !.current_pose = pose_name]]
         ELSE [raised |-> FALSE, s |-> s]

\* mutant: the name is remembered although the construction failed
SetTargetPoseRememberFailure(s, target_pose, cons) ==
    IF target_pose = "NONSTR"
    THEN [raised |-> TRUE, s |-> s]
    ELSE LET pose_name == Lower(target_pose) IN
         IF pose_name # s.current_pose
         THEN IF IsPoseSupported(pose_name)
              THEN LET g == GetPoseDetector(pose_name, s.n_constructed + 1, cons)
                   IN  IF g.raised
                       THEN [raised |-> FALSE,
                             s |-> [s EXCEPT !.current_detector = 0,
                                             !.current_pose = pose_name,
                                             !.tracker = InitTracker]]
                       ELSE [raised |-> FALSE,
                             s |-> [current_pose |-> pose_name,
                                    current_detector |-> g.id,
                                    n_constructed |-> s.n_constructed + 1,
                                    tracker |-> g.tracker]]
              ELSE [raised |-> FALSE,
                    s |-> [s EXCEPT !.current_detector = 0,
                                    !.tracker = InitTracker,
                                    !.current_pose = pose_name]]
         ELSE [raised |-> FALSE, s |-> s]

\* mutant: a new detector is bound while current_pose keeps the old name
SetTargetPoseKeepName(s, target_pose, cons) ==
    IF target_pose = "NONSTR"
    THEN [raised |-> TRUE, s |-> s]
    ELSE LET pose_name == Lower(target_pose) IN
         IF pose_name # s.current_pose
         THEN IF IsPoseSupported(pose_name)
              THEN LET g == GetPoseDetector(pose_name, s.n_constructed + 1, cons)
                   IN  IF g.raised
                       THEN [raised |-> FALSE,
                             s |-> [s EXCEPT !.current_detector = 0,
                                             !.tracker = InitTracker]]
                       ELSE [raised |-> FALSE,
                             s |-> [current_pose |-> s.current_pose,
                                    current_detector |-> g.id,
                                    n_constructed |-> s.n_constructed + 1,
                                    tracker |-> g.tracker]]
              ELSE [raised |-> FALSE,
                    s |-> [s EXCEPT !.current_detector = 0,
                                    !.tracker = InitTracker,
                                    !.current_pose = pose_name]]
         ELSE [raised |-> FALSE, s |-> s]

\* YogaPoseDetector.set_target_pose.  A target that is not a string makes
\* pose_name.lower() raise outside the try block.
SetTargetPose(s, target_pose, cons) ==
    IF target_pose = "NONSTR"
    THEN [raised |-> TRUE, s |-> s]
    ELSE LET pose_name == Lower(target_pose) IN
         IF pose_name # s.current_pose
         THEN IF IsPoseSupported(pose_name)
              THEN LET g == GetPoseDetector(pose_name, s.n_constructed + 1, cons)
                   IN  IF g.raised
                       THEN \* except: current_detector = None, current_pose kept
                            [raised |-> FALSE,
                             s |-> [s EXCEPT !.current_detector = 0,
                                             !.tracker = InitTracker]]
                       ELSE [raised |-> FALSE,
                             s |-> [current_pose |-> pose_name,
                                    current_detector |-> g.id,
                                    n_constructed |-> s.n_constructed + 1,
                                    tracker |-> g.tracker]]
              ELSE [raised |-> FALSE,
                    s |-> [s EXCEPT !.current_detector = 0,
                                    !.tracker = InitTracker,
                                    !.current_pose = pose_name]]
         ELSE [raised |-> FALSE, s |-> s]

\* mutant: a frame without a body yields a zero-filled keypoint array
ExtractKeypointsZeroFill(mp, ext) ==
    IF ~mp THEN [mp_results |-> FALSE, keypoints |-> FALSE]
    ELSE IF ext = "landmarks" THEN [mp_results |-> TRUE, keypoints |-> TRUE]
    ELSE IF ext = "nobody" THEN [mp_results |-> TRUE, keypoints |-> TRUE]
    ELSE [mp_results |-> FALSE, keypoints |-> FALSE]

\* YogaPoseDetector.extract_keypoints: which of (results, keypoints) is not None
ExtractKeypoints(mp, ext) ==
    IF ~mp THEN [mp_results |-> FALSE, keypoints |-> FALSE]
    ELSE IF ext = "landmarks" THEN [mp_results |-> TRUE, keypoints |-> TRUE]
    ELSE IF ext = "nobody" THEN [mp_results |-> TRUE, keypoints |-> FALSE]
    ELSE [mp_results |-> FALSE, keypoints |-> FALSE]

NoFrameVerdict ==
    [NoVerdict EXCEPT !.keys = {"success", "message"},
                      !.message = "No frame data provided"]

InvalidImageVerdict ==
    [NoVerdict EXCEPT !.keys = {"success", "message"},
                      !.message = "Invalid image data"]

ExceptionVerdict(text) ==
    [NoVerdict EXCEPT !.keys = {"success", "error"}, !.error = text]

NoPoseVerdict ==
    [NoVerdict EXCEPT !.keys = {"success", "message", "pose", "confidence"},
                      !.message = "No pose detected", !.pose = "NONE"]

SpecificVerdict(pose, ret) ==
    [NoVerdict EXCEPT !.keys = {"success", "pose", "stage", "is_correct", "confidence",
                                "has_error", "matches_target", "mode"},
                      !.success = TRUE,
                      !.pose = pose,
                      !.stage = ret.stage,
                      !.is_correct = ret.is_correct,
                      !.confidence = ret.probability,
                      !.has_error = ret.has_error,
                      !.matches_target = ret.is_correct,
                      !.mode = "specific_detector"]

\* mutant: the fallback verdict is not marked as demo
DemoVerdictUnmarked(pose, confidence, choice) ==
    [NoVerdict EXCEPT !.keys = {"success", "pose", "confidence", "is_correct", "mode"},
                      !.success = TRUE,
                      !.pose = IF pose # "NONE" THEN pose ELSE choice,
                      !.confidence = confidence,
                      !.is_correct = (confidence > 70),
                      !.mode = "specific_detector"]

\* predict_pose, "Fallback to demo mode": confidence is random.uniform(0.6,
\* 0.95), choice is random.choice(self.pose_classes)
DemoVerdict(pose, confidence, choice) ==
    [NoVerdict EXCEPT !.keys = {"success", "pose", "confidence", "is_correct", "mode"},
                      !.success = TRUE,
                      !.pose = IF pose # "NONE" THEN pose ELSE choice,
                      !.confidence = confidence,
                      !.is_correct = (confidence > 70),
                      !.mode = "demo"]

\* mutant: a call without a target drops the binding
PredictPoseUnbinds(s, mp, target_pose, e) ==
    LET st == IF Truthy(target_pose)
              THEN SetTargetPose(s, target_pose, e.cons)
              ELSE [raised |-> FALSE,
                    s |-> [s EXCEPT !.current_pose = "NONE",
                                    !.current_detector = 0,
                                    !.tracker = InitTracker]]
        s1 == st.s
        k == ExtractKeypoints(mp, e.ext)
        d == Detect(s1.tracker, e.label, e.prob, 0, e.out)
    IN  IF st.raised
        THEN [raised |-> TRUE, s |-> s1, verdict |-> NoVerdict, det |-> NoDetect]
        ELSE IF ~k.keypoints \/ ~k.mp_results
        THEN [raised |-> FALSE, s |-> s1, verdict |-> NoPoseVerdict, det |-> NoDetect]
        ELSE IF s1.current_detector # 0
        THEN [raised |-> FALSE,
              s |-> [s1 EXCEPT !.tracker = d.tracker],
              verdict |-> IF d.ret.status = "returned"
                          THEN SpecificVerdict(s1.current_pose, d.ret)
                          ELSE ExceptionVerdict("Error while detecting plank"),
              det |-> d.ret]
        ELSE [raised |-> FALSE, s |-> s1,
              verdict |-> DemoVerdict(s1.current_pose, e.conf, e.choice),
              det |-> NoDetect]

\* YogaPoseDetector.predict_pose(image, target_pose) with the environment
\* answering e = [cons, ext, label, prob, out, conf, choice]
PredictPose(s, mp, target_pose, e) ==
    LET st == IF Truthy(target_pose)
              THEN SetTargetPose(s, target_pose, e.cons)
              ELSE [raised |-> FALSE, s |-> s]
        s1 == st.s
        k == ExtractKeypoints(mp, e.ext)
        d == Detect(s1.tracker, e.label, e.prob, 0, e.out)
    IN  IF st.raised
        THEN [raised |-> TRUE, s |-> s1, verdict |-> NoVerdict, det |-> NoDetect]
        ELSE IF ~k.keypoints \/ ~k.mp_results
        THEN [raised |-> FALSE, s |-> s1, verdict |-> NoPoseVerdict, det |-> NoDetect]
        ELSE IF s1.current_detector # 0
        THEN [raised |-> FALSE,
              s |-> [s1 EXCEPT !.tracker = d.tracker],
              verdict |-> IF d.ret.status = "returned"
                          THEN SpecificVerdict(s1.current_pose, d.ret)
                          ELSE ExceptionVerdict("Error while detecting plank"),
              det |-> d.ret]
        ELSE [raised |-> FALSE, s |-> s1,
              verdict |-> DemoVerdict(s1.current_pose, e.conf, e.choice),
              det |-> NoDetect]

(* Frames.  frame_data is None, something that is not a string, or a string *)
(* given by its pieces between commas; a payload is "badpad" (b64decode     *)
(* raises), "garbage" (bytes that are no image) or "img" (an image).        *)
Falsy(frame) == frame.kind = "none" \/ (frame.kind = "str" /\ frame.parts = <<"">>)

\* if ',' in frame_data: frame_data = frame_data.split(',')[1]
StripHeader(parts) == IF Len(parts) >= 2 THEN parts[2] ELSE parts[1]

B64Raises(text) == text = "badpad"

\* cv2.imdecode(np.frombuffer(base64.b64decode(text)))
ImDecode(text) == IF text = "img" THEN "image" ELSE "NONE"

DecodesToImage(frame) ==
    /\ frame.kind = "str"
    /\ ~Falsy(frame)
    /\ ~B64Raises(StripHeader(frame.parts))
    /\ ImDecode(StripHeader(frame.parts)) = "image"

PropagatedException ==
    [NoVerdict EXCEPT !.keys = {"<exception>"}]

\* mutant: no try/except around process_frame
CatchNothing(r) ==
    IF r.raised THEN [r EXCEPT !.verdict = PropagatedException] ELSE r

\* process_frame, `except Exception as e'
CatchAll(r) ==
    IF r.raised
    THEN [r EXCEPT !.raised = FALSE, !.verdict = ExceptionVerdict("exception")]
    ELSE r

\* mutant: the target is applied before the frame is decoded
ProcessFrameSwitchFirst(s, mp, frame_data, target_pose, e) ==
    LET st == IF Truthy(target_pose) /\ target_pose # "NONSTR"
              THEN SetTargetPose(s, target_pose, e.cons)
              ELSE [raised |-> FALSE, s |-> s]
    IN
    CatchAll(
        IF Falsy(frame_data)
        THEN [raised |-> FALSE, s |-> st.s, verdict |-> NoFrameVerdict, det |-> NoDetect]
        ELSE IF frame_data.kind # "str"
        THEN [raised |-> TRUE, s |-> st.s, verdict |-> NoVerdict, det |-> NoDetect]
        ELSE IF B64Raises(StripHeader(frame_data.parts))
        THEN [raised |-> TRUE, s |-> st.s, verdict |-> NoVerdict, det |-> NoDetect]
        ELSE IF ImDecode(StripHeader(frame_data.parts)) = "NONE"
        THEN [raised |-> FALSE, s |-> st.s, verdict |-> InvalidImageVerdict,
              det |-> NoDetect]
        ELSE PredictPose(s, mp, target_pose, e))

\* YogaPoseDetector.process_frame(frame_data, target_pose)
ProcessFrame(s, mp, frame_data, target_pose, e) ==
    CatchAll(
        IF Falsy(frame_data)
        THEN [raised |-> FALSE, s |-> s, verdict |-> NoFrameVerdict, det |-> NoDetect]
        ELSE IF frame_data.kind # "str"
        THEN [raised |-> TRUE, s |-> s, verdict |-> NoVerdict, det |-> NoDetect]
        ELSE IF B64Raises(StripHeader(frame_data.parts))
        THEN [raised |-> TRUE, s |-> s, verdict |-> NoVerdict, det |-> NoDetect]
        ELSE IF ImDecode(StripHeader(frame_data.parts)) = "NONE"
        THEN [raised |-> FALSE, s |-> s, verdict |-> InvalidImageVerdict, det |-> NoDetect]
        ELSE PredictPose(s, mp, target_pose, e))

----------------------------------------------------------------------------
(* Request threads, the module-level singleton and the registry's detectors *)

Threads == {1, 2, 3}            \* request threads calling get_detector()
DetectThreads == {1, 2}         \* request threads inside detect() of one detector
PostThreads == {1, 2}           \* request threads inside PoseDetectionView.post

IdleThread == [pc |-> "idle", stage |-> "", prob |-> 0, inst |-> 0]

\* pose_detector.py:222, `_detector_instance = None'; no YogaPoseDetector yet
NoSingleton == [instance |-> 0, constructed |-> 0]

NoAct == [op |-> "init", det |-> 0]

InitExt ==
    /\ threads = [t \in Threads |-> IdleThread]
    /\ singleton = NoSingleton
    /\ pool = <<>>
    /\ acted = NoAct

\* PlankDetector.init_important_landmarks
PlankLandmarks ==
    <<"NOSE", "LEFT_SHOULDER", "RIGHT_SHOULDER", "LEFT_ELBOW", "RIGHT_ELBOW",
      "LEFT_WRIST", "RIGHT_WRIST", "LEFT_HIP", "RIGHT_HIP", "LEFT_KNEE",
      "RIGHT_KNEE", "LEFT_ANKLE", "RIGHT_ANKLE", "LEFT_HEEL", "RIGHT_HEEL",
      "LEFT_FOOT_INDEX", "RIGHT_FOOT_INDEX">>

NoRow == [raised |-> FALSE, len |-> 0]
NoLifecycle == [phase |-> "none", sessions |-> 0]
IdlePost == [pc |-> "idle", success |-> FALSE, is_correct |-> FALSE,
             total_frames |-> 0, correct_frames |-> 0]
NoneServed == [success |-> 0, correct |-> 0]

\* the members of mediapipe.solutions.pose.PoseLandmark
PoseLandmark ==
    {"NOSE", "LEFT_EYE_INNER", "LEFT_EYE", "LEFT_EYE_OUTER", "RIGHT_EYE_INNER",
     "RIGHT_EYE", "RIGHT_EYE_OUTER", "LEFT_EAR", "RIGHT_EAR", "MOUTH_LEFT",
     "MOUTH_RIGHT", "LEFT_SHOULDER", "RIGHT_SHOULDER", "LEFT_ELBOW", "RIGHT_ELBOW",
     "LEFT_WRIST", "RIGHT_WRIST", "LEFT_PINKY", "RIGHT_PINKY", "LEFT_INDEX",
     "RIGHT_INDEX", "LEFT_THUMB", "RIGHT_THUMB", "LEFT_HIP", "RIGHT_HIP",
     "LEFT_KNEE", "RIGHT_KNEE", "LEFT_ANKLE", "RIGHT_ANKLE", "LEFT_HEEL",
     "RIGHT_HEEL", "LEFT_FOOT_INDEX", "RIGHT_FOOT_INDEX"}

\* the four numbers taken from one landmark
Coordinates(lm_name) ==
    <<[lm |-> lm_name, c |-> "x"], [lm |-> lm_name, c |-> "y"],
      [lm |-> lm_name, c |-> "z"], [lm |-> lm_name, c |-> "visibility"]>>

\* mutant: a name that is no landmark contributes four zeros
RECURSIVE ExtractImportantKeypointsZeroFill(_)
ExtractImportantKeypointsZeroFill(names) ==
    IF names = <<>> THEN [raised |-> FALSE, data |-> <<>>]
    ELSE [raised |-> FALSE,
          data |-> (IF Head(names) \in PoseLandmark
                    THEN Coordinates(Head(names))
                    ELSE <<0, 0, 0, 0>>)
                   \o ExtractImportantKeypointsZeroFill(Tail(names)).data]

\* utils.extract_important_keypoints: getattr(PoseLandmark, lm_name) raises
\* AttributeError at the first name that is no member
RECURSIVE ExtractImportantKeypoints(_)
ExtractImportantKeypoints(names) ==
    IF names = <<>> THEN [raised |-> FALSE, data |-> <<>>]
    ELSE IF Head(names) \notin PoseLandmark
    THEN [raised |-> TRUE, data |-> <<>>]
    ELSE LET rest == ExtractImportantKeypoints(Tail(names)) IN
         IF rest.raised THEN rest
         ELSE [raised |-> FALSE, data |-> Coordinates(Head(names)) \o rest.data]

\* how detect() can end once the feature vector was or was not built
DetectOutcomesGiven(fb) == IF fb.raised THEN {"early"} ELSE DetectOutcomes

InitAux ==
    /\ row = NoRow
    /\ built_for = "NONE"
    /\ lifecycle = NoLifecycle
    /\ posts = [t \in PostThreads |-> IdlePost]
    /\ served = NoneServed

----------------------------------------------------------------------------
(* Specification of one detector driven directly: detect() and            *)
(* clear_results() on a PlankDetector that was constructed successfully.   *)

InitDetector ==
    /\ previous_stage = InitTracker.previous_stage
    /\ results = InitTracker.results
    /\ has_error = InitTracker.has_error
    /\ detect_ret = NoDetect
    /\ last_in = NoInput
    /\ hist = <<>>
    /\ emitted = {}
    /\ pre_clear = "never"
    /\ mp_ok = TRUE
    /\ detector_instance = FALSE
    /\ current_pose = "NONE"
    /\ current_detector = 0
    /\ n_constructed = 0
    /\ verdict = NoVerdict
    /\ response = NoResponse
    /\ session = NewSession
    /\ call = NoCall
    /\ InitExt
    /\ InitAux
    /\ important_landmarks = PlankLandmarks

\* detector.detect(mp_results, image, timestamp=0) with the classifier
\* answering (predicted_class, max_prob) and the call ending as `out'
DetectCall ==
    \E fb \in {ExtractImportantKeypoints(important_landmarks)} :
    \E out \in DetectOutcomesGiven(fb) :
    \E predicted_class \in (IF out = "early" THEN {""} ELSE Labels),
       max_prob \in (IF out = "early" THEN {0} ELSE ProbsDetector) :
        \* an exception before the prediction leaves no label to observe
        LET d == Detect(Tracker, predicted_class, max_prob, 0, out) IN
        /\ d.classified => Len(hist) < MaxFrames
        /\ previous_stage' = d.tracker.previous_stage
        /\ results' = d.tracker.results
        /\ has_error' = d.tracker.has_error
        /\ detect_ret' = d.ret
        /\ last_in' = [op |-> "detect", label |-> predicted_class,
                       prob |-> max_prob, out |-> out,
                       appended |-> (Len(d.tracker.results) > Len(results))]
        /\ hist' = IF d.classified THEN Append(hist, d.stage) ELSE hist
        /\ emitted' = IF Len(d.tracker.results) > Len(results)
                      THEN emitted \cup {Len(hist) + 1}
                      ELSE emitted
        /\ row' = [raised |-> fb.raised, len |-> Len(fb.data)]
        /\ UNCHANGED <<pre_clear, orchVars, extVars, important_landmarks, built_for,
                       sessVars>>

\* detector.clear_results()
ClearResultsCall ==
    LET t == ClearResults(Tracker) IN
    /\ previous_stage' = t.previous_stage
    /\ results' = t.results
    /\ has_error' = t.has_error
    /\ detect_ret' = NoDetect
    /\ last_in' = [op |-> "clear", label |-> "", prob |-> 0, out |-> "",
                   appended |-> FALSE]
    /\ hist' = <<>>
    /\ emitted' = {}
    /\ pre_clear' = previous_stage
    /\ UNCHANGED <<orchVars, extVars, featVars, built_for, sessVars>>

NextDetector == DetectCall \/ ClearResultsCall

SpecDetector == InitDetector /\ [][NextDetector]_vars

----------------------------------------------------------------------------
(* Specification of the pipeline: calls of process_frame on the process-   *)
(* wide YogaPoseDetector, directly and through PoseDetectionView.post.     *)

Targets == {"NONE", "plank", "PLANK", "tree", "NONSTR"}
Payloads == {"badpad", "garbage", "img"}
Frames ==
    {NoFrame, [kind |-> "nonstr", parts |-> <<>>], [kind |-> "str", parts |-> <<"">>]}
    \cup {[kind |-> "str", parts |-> <<p>>] : p \in Payloads}
    \cup {[kind |-> "str", parts |-> <<"data:image/jpeg;base64", "img">>]}
SessionIds == {0, 1, 2}      \* 0: no session_id; 1: an existing row; 2: no such row
DemoConfidences == {70, 71}     \* random.uniform(0.6, 0.95), both sides of 0.7

InitOrchestrator ==
    /\ previous_stage = InitTracker.previous_stage
    /\ results = InitTracker.results
    /\ has_error = InitTracker.has_error
    /\ detect_ret = NoDetect
    /\ last_in = NoInput
    /\ hist = <<>>
    /\ emitted = {}
    /\ pre_clear = "never"
    /\ mp_ok \in BOOLEAN
    /\ detector_instance = FALSE
    /\ current_pose = "NONE"
    /\ current_detector = 0
    /\ n_constructed = 0
    /\ verdict = NoVerdict
    /\ response = NoResponse
    /\ session = NewSession
    /\ call = NoCall
    /\ InitExt
    /\ InitAux

Init == InitOrchestrator /\ important_landmarks = PlankLandmarks

Orchestrator == [current_pose |-> current_pose,
                 current_detector |-> current_detector,
                 n_constructed |-> n_constructed,
                 tracker |-> Tracker]

\* the target pose handed to process_frame: PoseDetectionView.post calls
\* detector.process_frame(frame_data), the parameter keeps its default None
PassedTarget(op, target_pose) == IF op = "post" THEN "NONE" ELSE target_pose

\* PoseDetectionView.post after process_frame returned `result'
PostTail(result, target_pose, session_id, sess) ==
    IF ~result.success
    THEN [response |-> [status |-> 200, body |-> result], session |-> sess]
    ELSE IF Truthy(target_pose) /\ target_pose = "NONSTR"
    THEN \* target_pose.lower() raises; the outer except answers 500
         [response |-> [status |-> 500, body |-> ExceptionVerdict("exception")],
          session |-> sess]
    ELSE LET result2 ==
                 IF Truthy(target_pose)
                 THEN [result EXCEPT !.keys = @ \cup {"matches_target"},
                                     !.matches_target =
                                         (Lower(result.pose) = Lower(target_pose))]
                 ELSE result
             total == sess.total_frames + 1
             correct == IF result2.is_correct
                        THEN sess.correct_frames + 1
                        ELSE sess.correct_frames
         IN  [response |-> [status |-> 200, body |-> result2],
              session |-> IF session_id = 1
                          THEN [total_frames |-> total,
                                correct_frames |-> correct,
                                accuracy |-> (correct * 100) \div total,
                                detections |-> sess.detections + 1]
                          ELSE sess]

\* One call: get_detector().process_frame(frame_data, target) and, for
\* op = "post", the rest of PoseDetectionView.post around it.  The
\* environment's answers (constructor, estimator, classifier, drawing,
\* random numbers) are chosen only where the code asks for them.
Handle(op, frame_data, target_pose, session_id) ==
    LET passed == PassedTarget(op, target_pose)
        dec == DecodesToImage(frame_data)
        consTry == /\ dec
                   /\ Truthy(passed)
                   /\ passed # "NONSTR"
                   /\ Lower(passed) # current_pose
                   /\ IsPoseSupported(Lower(passed))
    IN
    \E cons \in (IF consTry THEN (IF mp_ok THEN {"ok", "fail"} ELSE {"fail"}) ELSE {""}) :
    \E st \in {IF dec /\ Truthy(passed)
               THEN SetTargetPose(Orchestrator, passed, cons)
               ELSE [raised |-> FALSE, s |-> Orchestrator]} :
    \E ext \in (IF ~(dec /\ ~st.raised) THEN {""}
                ELSE IF mp_ok THEN {"landmarks", "nobody", "error"}
                ELSE {"unavailable"}) :
    \E detReached \in {ext = "landmarks" /\ st.s.current_detector # 0},
       demoReached \in {ext = "landmarks" /\ st.s.current_detector = 0} :
    \E fb \in {IF detReached THEN ExtractImportantKeypoints(important_landmarks)
               ELSE [raised |-> FALSE, data |-> <<>>]} :
    \E out \in (IF detReached THEN DetectOutcomesGiven(fb) ELSE {""}) :
    \E label \in (IF detReached /\ out # "early" THEN Labels ELSE {""}),
       prob \in (IF detReached /\ out # "early" THEN Probs ELSE {0}),
       conf \in (IF demoReached THEN DemoConfidences ELSE {0}),
       choice \in (IF demoReached /\ st.s.current_pose = "NONE" THEN pose_classes ELSE {""}) :
    \E r \in {ProcessFrame(Orchestrator, mp_ok, frame_data, passed,
                           [cons |-> cons, ext |-> ext, label |-> label, prob |-> prob,
                            out |-> out, conf |-> conf, choice |-> choice])} :
    \E tail \in {PostTail(r.verdict, target_pose, session_id, session)} :
    /\ cons = "ok" => n_constructed < MaxDetectors
    /\ Len(r.s.tracker.results) <= MaxEvents
    /\ (op = "post" /\ session_id = 1 /\ r.verdict.success /\ tail.response.status = 200)
          => session.total_frames < MaxSessionFrames
    /\ call' = [op |-> op, frame |-> frame_data, target |-> target_pose,
                passed |-> passed, session_id |-> session_id,
                cons |-> cons, ext |-> ext]
    /\ IF op = "post" /\ Falsy(frame_data)
       THEN \* views.py:35-39, before get_detector()
            /\ response' = [status |-> 400,
                            body |-> [NoVerdict EXCEPT !.keys = {"error"},
                                                       !.error = "No frame data provided"]]
            /\ detect_ret' = NoDetect
            /\ last_in' = [NoInput EXCEPT !.op = "none"]
            /\ UNCHANGED <<detVars, detector_instance, current_pose, current_detector,
                           n_constructed, verdict, session>>
       ELSE /\ detector_instance' = TRUE
            /\ current_pose' = r.s.current_pose
            /\ current_detector' = r.s.current_detector
            /\ n_constructed' = r.s.n_constructed
            /\ previous_stage' = r.s.tracker.previous_stage
            /\ results' = r.s.tracker.results
            /\ has_error' = r.s.tracker.has_error
            /\ verdict' = IF r.raised THEN PropagatedException ELSE r.verdict
            /\ detect_ret' = r.det
            /\ last_in' = IF detReached
                          THEN [op |-> "detect", label |-> label, prob |-> prob,
                                out |-> out,
                                appended |-> (Len(r.s.tracker.results)
                                                > Len(st.s.tracker.results))]
                          ELSE [NoInput EXCEPT !.op = "none"]
            /\ IF op = "post"
               THEN /\ response' = tail.response
                    /\ session' = tail.session
               ELSE /\ response' = NoResponse
                    /\ UNCHANGED session
    /\ row' = [raised |-> fb.raised, len |-> Len(fb.data)]
    /\ built_for' = IF r.s.n_constructed > n_constructed
                    THEN Lower(passed)      \* get_pose_detector(pose_name) in this call
                    ELSE IF r.s.current_detector = 0 THEN "NONE"
                    ELSE built_for
    /\ UNCHANGED <<mp_ok, hist, emitted, pre_clear, extVars, important_landmarks,
                   sessVars>>

\* a direct call of the orchestrator: get_detector().process_frame(frame, target)
ProcessFrameCall ==
    \E frame_data \in Frames, target_pose \in Targets :
        Handle("process_frame", frame_data, target_pose, 0)

\* POST /api/yoga/detect/ with body {frame, target_pose, session_id}
PostCall ==
    \E frame_data \in Frames, target_pose \in Targets, session_id \in SessionIds :
        Handle("post", frame_data, target_pose, session_id)

\* the orchestrator used through its own interface
Next == ProcessFrameCall

Spec == Init /\ [][Next]_vars

\* the deployed endpoint: every frame arrives through PoseDetectionView.post
NextView == PostCall

SpecView == Init /\ [][NextView]_vars

----------------------------------------------------------------------------
(* Properties of the lone detector (checked under SpecDetector) *)

ExampleStages == <<"correct", "low back", "low back", "low back", "correct", "low back">>

\* stage of the classified frame right before frame i ("unknown" before the first)
PrevStageAt(i) == IF i = 1 THEN "unknown" ELSE hist[i - 1]

RECURSIVE EmittedStages(_)
EmittedStages(n) ==
    IF n = 0 THEN <<>>
    ELSE IF n \in emitted THEN Append(EmittedStages(n - 1), hist[n])
    ELSE EmittedStages(n - 1)

\* C1: starting from the initial state, an event is appended exactly at the
\* classified frames whose stage is an error stage different from the stage
\* of the frame before; the events are those frames' stages in order; and
\* [correct, low back, low back, low back, correct, low back] gives exactly
\* 2 events, at frames 2 and 6.
C1_EventPerErrorRun ==
    /\ \A i \in 1..Len(hist) :
          (i \in emitted) <=> (hist[i] \in ErrorStages /\ hist[i] # PrevStageAt(i))
    /\ Len(results) = Cardinality(emitted)
    /\ [k \in 1..Len(results) |-> results[k].stage] = EmittedStages(Len(hist))
    /\ hist = ExampleStages => (emitted = {2, 6} /\ Len(results) = 2)

C1_Witness ==
    /\ hist = ExampleStages
    /\ Len(results) = 2
    /\ emitted = {2, 6}

\* C2: in every state of the detector has_error is true exactly when
\* previous_stage is an error stage, and the has_error a detect() call
\* returns is true exactly when that frame's stage is an error stage.
C2_HasErrorIffErrorStage ==
    /\ has_error <=> (previous_stage \in ErrorStages)
    /\ detect_ret.status = "returned" =>
          (detect_ret.has_error <=> (detect_ret.stage \in ErrorStages))

\* the branch that leaves has_error untouched: two frames in a row in the
\* same error stage
C2_Witness ==
    /\ Len(hist) >= 2
    /\ hist[Len(hist)] = "high back"
    /\ hist[Len(hist) - 1] = "high back"
    /\ detect_ret.status = "returned"
    /\ detect_ret.has_error
    /\ has_error

ExpectedStage(label, prob) ==
    IF prob < 60 THEN "unknown"
    ELSE CASE label = "C" -> "correct"
           [] label = "L" -> "low back"
           [] label = "H" -> "high back"
           [] OTHER -> "unknown"

\* C3: with max probability below 0.6 the stage of the frame is "unknown"
\* whatever the label; at or above it the stage is correct / low back /
\* high back for C / L / H and "unknown" for any other label; a frame below
\* the threshold never appends an event.
C3_ThresholdGatesStage ==
    /\ PREDICTION_PROBABILITY_THRESHOLD = 60
    /\ (last_in.op = "detect" /\ last_in.out # "early") =>
          /\ Len(hist) >= 1
          /\ hist[Len(hist)] = ExpectedStage(last_in.label, last_in.prob)
          /\ previous_stage = ExpectedStage(last_in.label, last_in.prob)
          /\ last_in.prob < 60 => Len(hist) \notin emitted
    /\ detect_ret.status = "returned" =>
          detect_ret.stage = ExpectedStage(last_in.label, last_in.prob)

\* a low-back label at 0.59 right after a correct frame: no event
C3_Witness ==
    /\ last_in.op = "detect"
    /\ last_in.label = "L"
    /\ last_in.prob = 59
    /\ detect_ret.status = "returned"
    /\ detect_ret.stage = "unknown"
    /\ Len(hist) >= 2
    /\ hist[Len(hist) - 1] = "correct"
    /\ Len(hist) \notin emitted

\* C4: clear_results() leaves previous stage "unknown", no events and
\* has_error false; once it was called, whatever the stage before it, the
\* first later frame in an error stage appends the one and only event so
\* far, sets has_error, and a detect() that returns reports has_error true.
C4_ResetThenErrorEmits ==
    /\ last_in.op = "clear" =>
          (previous_stage = "unknown" /\ results = <<>> /\ ~has_error)
    /\ pre_clear # "never" =>
          \A i \in 1..Len(hist) :
              (hist[i] \in ErrorStages /\ \A j \in 1..(i - 1) : hist[j] \notin ErrorStages)
              => /\ i \in emitted
                 /\ Len(results) >= 1
                 /\ results[1].stage = hist[i]
                 /\ Len(hist) = i =>
                       /\ Len(results) = 1
                       /\ has_error
                       /\ detect_ret.status = "returned" => detect_ret.has_error

\* reset while in "low back", then a low-back frame: it is an event again
C4_Witness ==
    /\ pre_clear = "low back"
    /\ hist = <<"low back">>
    /\ Len(results) = 1
    /\ detect_ret.status = "returned"
    /\ detect_ret.has_error

----------------------------------------------------------------------------
(* Properties of the pipeline *)

\* C5 (as claimed; checked under SpecView): a POST with a decodable frame, a
\* detectable body and target_pose naming a supported pose hands the target
\* to the pipeline, binds the plank detector and answers a model-backed
\* verdict (mode "specific_detector").
C5_PostTargetReachesPipeline ==
    (/\ call.op = "post"
     /\ DecodesToImage(call.frame)
     /\ call.ext = "landmarks"
     /\ Truthy(call.target)
     /\ call.target # "NONSTR"
     /\ Lower(call.target) \in POSE_DETECTORS)
    => /\ call.passed = call.target
       /\ current_pose = Lower(call.target)
       /\ current_detector # 0
       /\ response.body.mode = "specific_detector"

\* a process_frame step that names a supported pose other than the bound
\* one and ends with a detector bound
C6_Switch ==
    /\ call'.op = "process_frame"
    /\ DecodesToImage(call'.frame)
    /\ Truthy(call'.passed)
    /\ call'.passed # "NONSTR"
    /\ Lower(call'.passed) # current_pose
    /\ IsPoseSupported(Lower(call'.passed))
    /\ current_detector' # 0

\* C6 (as claimed): after a call that switches to a supported pose the bound
\* detector has previous stage "unknown", no events and has_error false.
C6_FreshAfterSwitch ==
    [][C6_Switch =>
          (previous_stage' = "unknown" /\ results' = <<>> /\ ~has_error')]_vars

\* C6 (amended): a call that switches to a supported pose binds a newly
\* constructed detector, and after the call that detector's state is the
\* state of a fresh detector that saw at most this call's frame: nothing of
\* the detector bound before carries over.
C6_SwitchStartsFresh ==
    [][C6_Switch =>
          /\ current_detector' > n_constructed
          /\ IF last_in'.op = "detect" /\ last_in'.out # "early"
             THEN LET stg == ExpectedStage(last_in'.label, last_in'.prob) IN
                  /\ previous_stage' = stg
                  /\ has_error' = (stg \in ErrorStages)
                  /\ results' = IF stg \in ErrorStages
                                THEN <<[stage |-> stg, timestamp |-> 0,
                                        probability |-> last_in'.prob]>>
                                ELSE <<>>
             ELSE (previous_stage' = "unknown" /\ results' = <<>> /\ ~has_error')]_vars

\* plank, away, and back to plank with a low-back frame: second instance,
\* one event
C6_Witness ==
    /\ call.op = "process_frame"
    /\ call.cons = "ok"
    /\ n_constructed = 2
    /\ current_detector = 2
    /\ previous_stage = "low back"
    /\ Len(results) = 1

\* C7: a process call that targets the pose already bound keeps the same
\* detector instance, so the tracker state persists: the events so far stay,
\* and a frame in the error stage of the frame before appends no event.
C7_SameTargetKeepsDetector ==
    [][(/\ call'.op = "process_frame"
        /\ Truthy(call'.passed)
        /\ call'.passed # "NONSTR"
        /\ Lower(call'.passed) = current_pose
        /\ current_detector # 0)
       => /\ current_detector' = current_detector
          /\ current_pose' = current_pose
          /\ n_constructed' = n_constructed
          /\ Len(results') >= Len(results)
          /\ SubSeq(results', 1, Len(results)) = results
          /\ (/\ last_in'.op = "detect"
              /\ last_in'.out # "early"
              /\ previous_stage \in ErrorStages
              /\ ExpectedStage(last_in'.label, last_in'.prob) = previous_stage)
             => (results' = results /\ has_error' /\ ~last_in'.appended)]_vars

\* a second low-back frame for the bound pose (named in another case): no
\* construction, no new event
C7_Witness ==
    /\ call.op = "process_frame"
    /\ call.passed = "PLANK"
    /\ call.cons = ""
    /\ current_detector # 0
    /\ last_in.op = "detect"
    /\ last_in.label = "L"
    /\ last_in.prob = 82
    /\ ~last_in.appended
    /\ previous_stage = "low back"
    /\ Len(results) = 1
    /\ verdict.success
    /\ verdict.has_error

\* C8: when extraction signals absence (estimator unavailable, no body,
\* extraction error) the verdict is success = false with message "No pose
\* detected", detect() is not invoked, and the tracker state of the bound
\* detector is what it was (that of a new detector if the call bound one).
C8_NoPoseLeavesTracker ==
    [][(call'.op = "process_frame" /\ call'.ext \in {"unavailable", "nobody", "error"})
       => /\ {"success", "message"} \subseteq verdict'.keys
          /\ ~verdict'.success
          /\ verdict'.message = "No pose detected"
          /\ detect_ret'.status = "none"
          /\ last_in'.op # "detect"
          /\ current_detector' = current_detector
                => (/\ previous_stage' = previous_stage
                    /\ results' = results
                    /\ has_error' = has_error)
          /\ current_detector' # current_detector
                => (previous_stage' = "unknown" /\ results' = <<>> /\ ~has_error')]_vars

\* a frame without a body in the middle of a low-back run
C8_Witness ==
    /\ call.op = "process_frame"
    /\ call.ext = "nobody"
    /\ call.cons = ""
    /\ current_detector # 0
    /\ previous_stage = "low back"
    /\ has_error
    /\ Len(results) = 1
    /\ ~verdict.success
    /\ verdict.message = "No pose detected"

\* C9: with landmarks extracted and no detector bound the verdict is
\* success = true with mode "demo"; and every success = true verdict has
\* mode "specific_detector" exactly when a bound detector's detect()
\* returned it, and mode "demo" otherwise.
C9_ModeTellsDemoFromModel ==
    /\ (call.op = "process_frame" /\ call.ext = "landmarks" /\ current_detector = 0)
          => (/\ verdict.success
              /\ "mode" \in verdict.keys
              /\ verdict.mode = "demo")
    /\ (call.op = "process_frame" /\ verdict.success)
          => (/\ "mode" \in verdict.keys
              /\ verdict.mode \in {"specific_detector", "demo"}
              /\ (verdict.mode = "specific_detector") <=> (detect_ret.status = "returned")
              /\ (verdict.mode = "demo") <=> (detect_ret.status # "returned"))

C9_Witness ==
    /\ call.op = "process_frame"
    /\ call.passed = "tree"
    /\ call.ext = "landmarks"
    /\ current_detector = 0
    /\ verdict.success
    /\ verdict.mode = "demo"

\* C10: whatever the frame, the target and the failures inside, process_frame
\* returns a verdict with a boolean success and lets no exception out; a
\* verdict with success = false carries a message or an error.
C10_AlwaysAVerdict ==
    call.op = "process_frame" =>
        /\ verdict # PropagatedException
        /\ "success" \in verdict.keys
        /\ verdict.success \in BOOLEAN
        /\ ~verdict.success =>
              ("message" \in verdict.keys \/ "error" \in verdict.keys)

\* a target that is not a string: set_target_pose raises, process_frame
\* answers success = false with an error
C10_Witness ==
    /\ call.op = "process_frame"
    /\ call.passed = "NONSTR"
    /\ DecodesToImage(call.frame)
    /\ ~verdict.success
    /\ "error" \in verdict.keys

\* C11 (as claimed): a frame that ends in a failure verdict because the
\* bound detector's detect() raised, at whichever step, leaves that
\* detector's previous stage, event list and has_error as they were before
\* the call (as constructed, if the call bound the detector).
C11_FailedDetectLeavesTracker ==
    [][(call'.op = "process_frame" /\ detect_ret'.status = "raised")
       => /\ ~verdict'.success
          /\ current_detector' = current_detector
                => (/\ previous_stage' = previous_stage
                    /\ results' = results
                    /\ has_error' = has_error)
          /\ current_detector' # current_detector
                => (previous_stage' = "unknown" /\ results' = <<>> /\ ~has_error')]_vars

\* C12: a frame payload that is empty, malformed or no image gives a
\* success = false verdict after a single attempt (nothing after the decode
\* runs), and leaves the bound pose, the bound detector and its tracker
\* untouched, also when the call names another pose.
C12_DecodeFailureChangesNothing ==
    [][(call'.op = "process_frame" /\ ~DecodesToImage(call'.frame))
       => /\ "success" \in verdict'.keys
          /\ ~verdict'.success
          /\ call'.cons = ""
          /\ call'.ext = ""
          /\ detect_ret'.status = "none"
          /\ current_pose' = current_pose
          /\ current_detector' = current_detector
          /\ n_constructed' = n_constructed
          /\ previous_stage' = previous_stage
          /\ results' = results
          /\ has_error' = has_error]_vars

\* plank is bound and in a low-back run; a frame that is no image arrives
\* with target "tree"
C12_Witness ==
    /\ call.op = "process_frame"
    /\ call.frame = [kind |-> "str", parts |-> <<"garbage">>]
    /\ call.passed = "tree"
    /\ ~verdict.success
    /\ verdict.message = "Invalid image data"
    /\ current_pose = "plank"
    /\ current_detector # 0
    /\ previous_stage = "low back"
    /\ Len(results) = 1

\* C13 (as claimed): when constructing the detector of a supported pose
\* fails, process with that target does not answer a success = true
\* demo-mode verdict.
C13_NoSilentFallback ==
    (call.op = "process_frame" /\ call.cons = "fail")
    => ~(verdict.success /\ verdict.mode = "demo")

\* C14 (as claimed; checked under SpecView): when a target pose is given,
\* the matches_target returned to the caller is true exactly when the
\* verdict is_correct and its pose equals the target, ignoring case.
C14_MatchesTargetIsCorrectAndName ==
    (/\ call.op = "post"
     /\ Truthy(call.target)
     /\ call.target # "NONSTR"
     /\ response.status = 200
     /\ response.body.success)
    => /\ "matches_target" \in response.body.keys
       /\ response.body.matches_target
             <=> (/\ response.body.is_correct
                  /\ Lower(response.body.pose) = Lower(call.target))

\* C15 (as claimed): a success verdict holds matches_target exactly when a
\* target pose came with that frame.
C15_MatchesTargetPresentIffTarget ==
    (call.op = "process_frame" /\ verdict.success)
    => (("matches_target" \in verdict.keys) <=> Truthy(call.passed))

\* C19: in every model-backed verdict is_correct is true exactly when stage
\* is "correct", is_correct and has_error are never both true, and a frame
\* classified "C" at or above the threshold gives stage "correct",
\* is_correct true and has_error false whatever came before.
C19_CorrectIffStageCorrect ==
    (call.op = "process_frame" /\ verdict.success /\ verdict.mode = "specific_detector")
    => /\ {"stage", "is_correct", "has_error"} \subseteq verdict.keys
       /\ verdict.is_correct <=> (verdict.stage = "correct")
       /\ ~(verdict.is_correct /\ verdict.has_error)
       /\ (last_in.label = "C" /\ last_in.prob >= 60)
             => (/\ verdict.stage = "correct"
                 /\ verdict.is_correct
                 /\ ~verdict.has_error)

\* "C" at 0.82 on a detector that has already logged an error event
C19_Witness ==
    /\ call.op = "process_frame"
    /\ verdict.success
    /\ verdict.mode = "specific_detector"
    /\ last_in.label = "C"
    /\ last_in.prob = 82
    /\ verdict.stage = "correct"
    /\ verdict.is_correct
    /\ ~verdict.has_error
    /\ Len(results) >= 1

----------------------------------------------------------------------------
(* Two request threads inside detect() of the same detector.  Nothing in   *)
(* detect(), get_detector() or the view takes a lock, so the statements of *)
(* the stage management interleave freely.                                 *)

\* plank_detector.py:65-84, the thread's own classification
DetectBegin(t) ==
    /\ threads[t].pc = "idle"
    /\ \E predicted_class \in Labels, max_prob \in Probs :
          threads' = [threads EXCEPT ![t] =
                         [pc |-> "test",
                          stage |-> EvaluatePrediction(predicted_class, max_prob),
                          prob |-> max_prob, inst |-> 0]]
    /\ UNCHANGED <<detVars, ghostDetVars, orchVars, singleton, pool, acted,
                   featVars, built_for, sessVars>>

\* plank_detector.py:87-88 and 95: the two tests, reading self.previous_stage
DetectTest(t) ==
    /\ threads[t].pc = "test"
    /\ threads' = [threads EXCEPT ![t].pc =
                      IF threads[t].stage \in ErrorStages
                      THEN IF previous_stage # threads[t].stage
                           THEN "append" ELSE "update"
                      ELSE "clear"]
    /\ UNCHANGED <<detVars, ghostDetVars, orchVars, singleton, pool, acted,
                   featVars, built_for, sessVars>>

\* plank_detector.py:89-93, self.results.append(...)
DetectAppend(t) ==
    /\ threads[t].pc = "append"
    /\ results' = Append(results, [stage |-> threads[t].stage, timestamp |-> 0,
                                   probability |-> threads[t].prob])
    /\ threads' = [threads EXCEPT ![t].pc = "flag"]
    /\ UNCHANGED <<previous_stage, has_error, ghostDetVars, orchVars,
                   singleton, pool, acted,
                   featVars, built_for, sessVars>>

\* plank_detector.py:94, self.has_error = True
DetectFlag(t) ==
    /\ threads[t].pc = "flag"
    /\ has_error' = TRUE
    /\ threads' = [threads EXCEPT ![t].pc = "update"]
    /\ UNCHANGED <<previous_stage, results, ghostDetVars, orchVars,
                   singleton, pool, acted,
                   featVars, built_for, sessVars>>

\* plank_detector.py:96, self.has_error = False
DetectClear(t) ==
    /\ threads[t].pc = "clear"
    /\ has_error' = FALSE
    /\ threads' = [threads EXCEPT ![t].pc = "update"]
    /\ UNCHANGED <<previous_stage, results, ghostDetVars, orchVars,
                   singleton, pool, acted,
                   featVars, built_for, sessVars>>

\* plank_detector.py:98, self.previous_stage = current_stage
DetectUpdate(t) ==
    /\ threads[t].pc = "update"
    /\ previous_stage' = threads[t].stage
    /\ threads' = [threads EXCEPT ![t].pc = "done"]
    /\ UNCHANGED <<results, has_error, ghostDetVars, orchVars,
                   singleton, pool, acted,
                   featVars, built_for, sessVars>>

NextConcurrentDetect ==
    \E t \in DetectThreads :
        \/ DetectBegin(t)
        \/ DetectTest(t)
        \/ DetectAppend(t)
        \/ DetectFlag(t)
        \/ DetectClear(t)
        \/ DetectUpdate(t)

SpecConcurrentDetect == InitDetector /\ [][NextConcurrentDetect]_vars

\* the tracker after the threads' frames are handled one after another
RECURSIVE SequentialOutcome(_, _)
SequentialOutcome(t, order) ==
    IF order = <<>> THEN t
    ELSE SequentialOutcome(
             StageManagement(t, threads[Head(order)].stage, 0,
                             threads[Head(order)].prob),
             Tail(order))

\* C16 (as claimed; checked under SpecConcurrentDetect): when the calls in
\* flight on one detector have all finished, its event list and previous
\* stage are those of handling the frames in some sequential order (two
\* simultaneous frames in the same new error stage give one event).
C16_ConcurrentDetectSerialized ==
    (\A t \in DetectThreads : threads[t].pc = "done")
    => \E order \in {<<1, 2>>, <<2, 1>>} :
          /\ SequentialOutcome(InitTracker, order).results = results
          /\ SequentialOutcome(InitTracker, order).previous_stage = previous_stage

----------------------------------------------------------------------------
(* Request threads calling get_detector() *)

\* pose_detector.py:228, `if _detector_instance is None'
GetDetectorCheck(t) ==
    /\ threads[t].pc = "idle"
    /\ threads' = [threads EXCEPT ![t].pc =
                      IF singleton.instance = 0 THEN "create" ELSE "return"]
    /\ UNCHANGED <<detVars, ghostDetVars, orchVars, singleton, pool, acted,
                   featVars, built_for, sessVars>>

\* pose_detector.py:230, `_detector_instance = YogaPoseDetector()'
GetDetectorCreate(t) ==
    /\ threads[t].pc = "create"
    /\ singleton' = [instance |-> singleton.constructed + 1,
                     constructed |-> singleton.constructed + 1]
    /\ detector_instance' = TRUE
    /\ threads' = [threads EXCEPT ![t].pc = "return"]
    /\ UNCHANGED <<detVars, ghostDetVars, mp_ok, current_pose, current_detector,
                   n_constructed, verdict, response, session, call, pool, acted,
                   featVars, built_for, sessVars>>

\* pose_detector.py:231, `return _detector_instance'
GetDetectorReturn(t) ==
    /\ threads[t].pc = "return"
    /\ threads' = [threads EXCEPT ![t].pc = "done", ![t].inst = singleton.instance]
    /\ UNCHANGED <<detVars, ghostDetVars, orchVars, singleton, pool, acted,
                   featVars, built_for, sessVars>>

\* the thread serves its next request; inst keeps what the last call returned
GetDetectorAgain(t) ==
    /\ threads[t].pc = "done"
    /\ threads' = [threads EXCEPT ![t].pc = "idle"]
    /\ UNCHANGED <<detVars, ghostDetVars, orchVars, singleton, pool, acted,
                   featVars, built_for, sessVars>>

NextGetDetector ==
    \E t \in Threads :
        \/ GetDetectorCheck(t)
        \/ GetDetectorCreate(t)
        \/ GetDetectorReturn(t)
        \/ GetDetectorAgain(t)

SpecGetDetector == Init /\ [][NextGetDetector]_vars

\* C18 (as claimed; checked under SpecGetDetector): at most one
\* YogaPoseDetector is ever constructed and every get_detector() call
\* returns the same instance, for any interleaving of concurrent calls.
C18_SingleInstance ==
    /\ singleton.constructed <= 1
    /\ \A t1, t2 \in Threads :
          (threads[t1].inst # 0 /\ threads[t2].inst # 0)
          => threads[t1].inst = threads[t2].inst

----------------------------------------------------------------------------
(* Two live sessions sending frames.  Each request obtains its detector    *)
(* from get_detector() (views.py:42), whatever session it belongs to.      *)

LiveSessions == {1, 2}

\* a frame of session `session_id' handed to get_detector().process_frame
SessionFrameCall ==
    \E session_id \in LiveSessions, frame_data \in Frames, target_pose \in Targets :
        Handle("process_frame", frame_data, target_pose, session_id)

NextSessions == SessionFrameCall

SpecSessions == Init /\ [][NextSessions]_vars

\* C17 (as claimed; checked under SpecSessions): a frame processed for one
\* session never changes the bound pose, the bound detector or the stage
\* tracker (previous stage, events, has_error) that the session served just
\* before it observes.
C17_SessionsDoNotInterfere ==
    [][(call.session_id \in LiveSessions /\ call'.session_id \in LiveSessions
        /\ call'.session_id # call.session_id)
       => /\ current_pose' = current_pose
          /\ current_detector' = current_detector
          /\ previous_stage' = previous_stage
          /\ results' = results
          /\ has_error' = has_error]_vars

----------------------------------------------------------------------------
(* Detectors obtained from the registry and used side by side *)

MaxPool == 2

RegistryNames == {"plank", "PLANK", "tree"}

\* mutant: the event list is one object shared by every instance
SetInstanceShared(p, i, t) ==
    [j \in DOMAIN p |-> IF j = i THEN t ELSE [p[j] EXCEPT !.results = t.results]]

\* the attributes set in BasePoseDetector.__init__ belong to the instance
SetInstance(p, i, t) ==
    [p EXCEPT ![i] = t]

\* the events held by all the detectors together
RECURSIVE PoolEvents(_)
PoolEvents(p) ==
    IF p = <<>> THEN 0 ELSE Len(Head(p).results) + PoolEvents(Tail(p))

\* get_pose_detector(pose_name)
RegistryGet ==
    \E pose_name \in RegistryNames :
    \E cons \in (IF ~IsPoseSupported(pose_name) THEN {""}
                 ELSE IF mp_ok THEN {"ok", "fail"} ELSE {"fail"}) :
    \E g \in {GetPoseDetector(pose_name, Len(pool) + 1, cons)} :
        /\ ~g.raised => Len(pool) < MaxPool
        /\ pool' = IF g.raised THEN pool ELSE Append(pool, g.tracker)
        /\ acted' = IF ~IsPoseSupported(pose_name)
                    THEN [op |-> "get_unsupported", det |-> 0]   \* ValueError
                    ELSE IF g.raised THEN [op |-> "get_failed", det |-> 0]
                    ELSE [op |-> "get", det |-> g.id]
        /\ UNCHANGED <<detVars, ghostDetVars, orchVars, threads, singleton,
                     featVars, built_for, sessVars>>

\* detect() on the i-th detector obtained
RegistryDetect ==
    \E i \in DOMAIN pool, out \in DetectOutcomes :
    \E predicted_class \in (IF out = "early" THEN {""} ELSE Labels),
       max_prob \in (IF out = "early" THEN {0} ELSE Probs) :
    \E d \in {Detect(pool[i], predicted_class, max_prob, 0, out)} :
    \E p \in {SetInstance(pool, i, d.tracker)} :
        /\ PoolEvents(p) <= MaxEvents
        /\ pool' = p
        /\ acted' = [op |-> "detect", det |-> i]
        /\ UNCHANGED <<detVars, ghostDetVars, orchVars, threads, singleton,
                     featVars, built_for, sessVars>>

\* clear_results() on the i-th detector obtained
RegistryClear ==
    \E i \in DOMAIN pool :
        /\ pool' = SetInstance(pool, i, ClearResults(pool[i]))
        /\ acted' = [op |-> "clear", det |-> i]
        /\ UNCHANGED <<detVars, ghostDetVars, orchVars, threads, singleton,
                     featVars, built_for, sessVars>>

NextRegistry == RegistryGet \/ RegistryDetect \/ RegistryClear

SpecRegistry == Init /\ [][NextRegistry]_vars

\* C20 (checked under SpecRegistry): a successful get_pose_detector call
\* adds a detector in the initial state and leaves every detector obtained
\* before as it was; a failed one leaves them all as they were; detect() or
\* clear_results() on one detector leaves previous stage, events and
\* has_error of every other detector unchanged.
C20_RegistryDetectorsIndependent ==
    [][/\ acted'.op = "get"
          => /\ Len(pool') = Len(pool) + 1
             /\ pool'[Len(pool')] = InitTracker
             /\ \A j \in DOMAIN pool : pool'[j] = pool[j]
       /\ acted'.op \in {"get_failed", "get_unsupported"} => pool' = pool
       /\ acted'.op \in {"detect", "clear"}
          => /\ DOMAIN pool' = DOMAIN pool
             /\ \A j \in DOMAIN pool : j # acted'.det => pool'[j] = pool[j]]_vars

\* detect() has just appended an event to the second detector while the
\* first one holds an event and a stage of its own
C20_Witness ==
    /\ acted = [op |-> "detect", det |-> 2]
    /\ Len(pool) = 2
    /\ Len(pool[1].results) = 1
    /\ Len(pool[2].results) = 1
    /\ pool[1].results # pool[2].results
    /\ pool[1].previous_stage = "correct"
    /\ pool[2].has_error

----------------------------------------------------------------------------
(* Further properties of the lone detector (SpecDetector) *)

IsPrefix(a, b) == Len(a) <= Len(b) /\ SubSeq(b, 1, Len(a)) = a

\* C21: every detect() call keeps the events it found as a prefix of the
\* event list and appends at most one; a frame whose stage is "correct" or
\* "unknown" leaves the list as it was and clears has_error; a non-empty
\* list becomes empty only by clear_results().
C21_EventsAppendOnly ==
    [][/\ last_in'.op = "detect"
          => /\ IsPrefix(results, results')
             /\ Len(results') <= Len(results) + 1
       /\ (/\ last_in'.op = "detect"
           /\ last_in'.out # "early"
           /\ ExpectedStage(last_in'.label, last_in'.prob) \in {"correct", "unknown"})
          => /\ results' = results
             /\ ~has_error'
       /\ (results # <<>> /\ results' = <<>>) => last_in'.op = "clear"]_vars

\* a correct frame right after an error run: the events stay, has_error is off
C21_Witness ==
    /\ last_in.op = "detect"
    /\ Len(hist) >= 2
    /\ hist[Len(hist) - 1] \in ErrorStages
    /\ hist[Len(hist)] = "correct"
    /\ results # <<>>
    /\ ~has_error

\* C30: every event carries an error stage and a probability at or above
\* the threshold; while has_error is set and the list is non-empty, the
\* last event's stage is previous_stage.
C30_EventsAreErrorStages ==
    /\ \A k \in 1..Len(results) :
          /\ results[k].stage \in ErrorStages
          /\ results[k].probability >= PREDICTION_PROBABILITY_THRESHOLD
    /\ (results # <<>> /\ has_error)
          => results[Len(results)].stage = previous_stage

\* two events of different stages, the detector still in the later one
C30_Witness ==
    /\ Len(results) = 2
    /\ results[1].stage # results[2].stage
    /\ has_error
    /\ previous_stage = results[2].stage
    /\ Len(hist) >= 3
    /\ hist[Len(hist)] = hist[Len(hist) - 1]

----------------------------------------------------------------------------
(* The pipeline over detectors configured with other landmark names *)

LandmarkConfigs ==
    {PlankLandmarks, <<"NOSE", "LEFT_HIP">>, <<"NOSE", "TAIL">>,
     <<"TAIL", "NOSE">>, <<"LEFT_HIP", "NOSE", "TAIL">>}

InitFeatures == InitOrchestrator /\ important_landmarks \in LandmarkConfigs

\* a decodable frame handed to process_frame, with or without the target
FeatureFrameCall ==
    \E frame_data \in {[kind |-> "str", parts |-> <<"img">>]},
       target_pose \in {"NONE", "plank", "tree"} :
        Handle("process_frame", frame_data, target_pose, 0)

NextFeatures == FeatureFrameCall

SpecFeatures == InitFeatures /\ [][NextFeatures]_vars

HasUnknownLandmark ==
    \E k \in 1..Len(important_landmarks) : important_landmarks[k] \notin PoseLandmark

\* C24 (checked under SpecFeatures): when a configured landmark name is no
\* known landmark, every frame that reaches the detector fails in feature
\* building (an error, no feature vector of any length), nothing is
\* classified, the verdict is a failure carrying the error, and the stage
\* tracker never leaves its initial state; with known names only, the
\* feature vector has four numbers per configured name.
C24_UnknownLandmarkFails ==
    /\ HasUnknownLandmark
          => /\ previous_stage = "unknown" /\ results = <<>> /\ ~has_error
             /\ last_in.op = "detect"
                   => /\ row = [raised |-> TRUE, len |-> 0]
                      /\ last_in.out = "early"
                      /\ last_in.label = ""
                      /\ detect_ret.status = "raised"
                      /\ ~verdict.success
                      /\ "error" \in verdict.keys
                      /\ verdict.error # ""
    /\ (~HasUnknownLandmark /\ last_in.op = "detect")
          => row = [raised |-> FALSE, len |-> 4 * Len(important_landmarks)]

\* a frame with landmarks reached a bound detector configured with a name
\* that is no landmark
C24_Witness ==
    /\ HasUnknownLandmark
    /\ important_landmarks[1] \in PoseLandmark
    /\ current_detector # 0
    /\ call.ext = "landmarks"
    /\ last_in.op = "detect"
    /\ row.raised
    /\ ~verdict.success

----------------------------------------------------------------------------
(* Further properties of the orchestrator (Spec) *)

\* C26: whenever a detector is bound, current_pose is a pose the registry
\* supports and the bound detector is the one get_pose_detector built for
\* that name; a verdict with mode "specific_detector" comes from a bound
\* detector and reports the pose that detector was built for.
C26_BoundDetectorMatchesPose ==
    /\ current_detector # 0
          => /\ current_pose # "NONE"
             /\ IsPoseSupported(current_pose)
             /\ built_for = current_pose
    /\ (verdict.success /\ verdict.mode = "specific_detector")
          => /\ current_detector # 0
             /\ verdict.pose = built_for

\* the second detector built, for a target written in upper case, has just
\* classified a frame
C26_Witness ==
    /\ n_constructed = 2
    /\ current_detector = 2
    /\ call.target = "PLANK"
    /\ call.cons = "ok"
    /\ verdict.success
    /\ verdict.mode = "specific_detector"
    /\ verdict.pose = "plank"

\* C25: a process call without a target leaves current_pose and
\* current_detector as they were and builds nothing; if the frame is
\* classified, it is by the detector that was bound before the call, whose
\* events so far are kept, and a model-backed verdict names the pose bound
\* before the call.
C25_NoTargetKeepsBinding ==
    [][(call'.op = "process_frame" /\ ~Truthy(call'.passed))
       => /\ current_pose' = current_pose
          /\ current_detector' = current_detector
          /\ n_constructed' = n_constructed
          /\ built_for' = built_for
          /\ last_in'.op = "detect"
                => /\ current_detector # 0
                   /\ IsPrefix(results, results')
                   /\ last_in'.out # "early"
                         => previous_stage' = ExpectedStage(last_in'.label, last_in'.prob)
          /\ last_in'.op # "detect"
                => (/\ previous_stage' = previous_stage
                    /\ results' = results
                    /\ has_error' = has_error)
          /\ (verdict'.success /\ verdict'.mode = "specific_detector")
                => (current_detector # 0 /\ verdict'.pose = current_pose)
          /\ (verdict'.success /\ verdict'.mode = "demo")
                => current_detector = 0]_vars

\* a frame without a target has just added the second event to the detector
\* bound by an earlier call
C25_Witness ==
    /\ call.op = "process_frame"
    /\ call.passed = "NONE"
    /\ current_detector # 0
    /\ last_in.op = "detect"
    /\ last_in.appended
    /\ Len(results) = 2
    /\ verdict.success
    /\ verdict.mode = "specific_detector"

\* C27 (as claimed): whenever a call is given a target and returns
\* success = true, the verdict's pose is the lower-cased target, also after
\* the detector for that target could not be constructed.
C27_PoseIsLoweredTarget ==
    (/\ call.op = "process_frame"
     /\ Truthy(call.passed)
     /\ call.passed # "NONSTR"
     /\ verdict.success)
    => verdict.pose = Lower(call.passed)

\* C28: is_pose_supported and get_pose_detector agree on every name whatever
\* its case (the lookup raises ValueError exactly for the unsupported
\* names); and a call that targets the bound pose in another letter case
\* keeps the detector, builds nothing and keeps the events.
C28_NamesCompareCaseInsensitively ==
    [][/\ \A name \in RegistryNames \cup (Targets \ {"NONE", "NONSTR"}) :
            /\ IsPoseSupported(name) <=> IsPoseSupported(Lower(name))
            /\ \A cons \in {"ok", "fail"} :
                  (GetPoseDetector(name, 1, cons).error = "ValueError")
                     <=> ~IsPoseSupported(name)
       /\ (/\ call'.op = "process_frame"
           /\ Truthy(call'.passed)
           /\ call'.passed # "NONSTR"
           /\ call'.passed # current_pose
           /\ Lower(call'.passed) = current_pose
           /\ current_detector # 0)
          => /\ current_detector' = current_detector
             /\ current_pose' = current_pose
             /\ n_constructed' = n_constructed
             /\ IsPrefix(results, results')
             /\ last_in'.op # "detect"
                   => (previous_stage' = previous_stage /\ has_error' = has_error)]_vars

\* the one detector ever built holds two events and the last call named its
\* pose in upper case
C28_Witness ==
    /\ call.op = "process_frame"
    /\ call.passed = "PLANK"
    /\ current_pose = "plank"
    /\ n_constructed = 1
    /\ current_detector = 1
    /\ Len(results) = 2
    /\ last_in.op = "detect"

\* C29: after the construction of the detector for the targeted pose failed,
\* current_pose is not that pose and no detector is bound; the next call
\* that targets the pose and reaches predict_pose attempts the construction
\* again, and when it succeeds a new detector is bound that has seen at most
\* this frame, and a success verdict is model-backed.
C29_FailedConstructionIsRetried ==
    [][/\ call'.cons = "fail"
          => /\ current_pose' # Lower(call'.passed)
             /\ current_pose' = current_pose
             /\ current_detector' = 0
       /\ (/\ call.cons = "fail"
           /\ call'.op = "process_frame"
           /\ Truthy(call'.passed)
           /\ call'.passed # "NONSTR"
           /\ Lower(call'.passed) = Lower(call.passed)
           /\ DecodesToImage(call'.frame))
          => /\ call'.cons \in {"ok", "fail"}
             /\ call'.cons = "ok"
                   => /\ current_pose' = Lower(call'.passed)
                      /\ current_detector' = n_constructed + 1
                      /\ n_constructed' = n_constructed + 1
                      /\ built_for' = current_pose'
                      /\ Len(results') <= 1
                      /\ last_in'.op # "detect" =>
                            (previous_stage' = "unknown" /\ results' = <<>> /\ ~has_error')
                      /\ verdict'.success => verdict'.mode = "specific_detector"]_vars

\* the construction for "plank" has just failed while "tree" was the current
\* pose and one detector had been built before
C29_Witness ==
    /\ call.cons = "fail"
    /\ Lower(call.passed) = "plank"
    /\ current_pose = "tree"
    /\ current_detector = 0
    /\ n_constructed = 1
    /\ mp_ok
    /\ verdict.success
    /\ verdict.mode = "demo"

----------------------------------------------------------------------------
(* Sessions started and ended through the session views, with frames of    *)
(* the running session handed to get_detector().process_frame              *)

SessionOrdinals == {1, 2}       \* the first session and the one after it

\* StartSessionView.post: a new YogaSession row
StartSessionCall ==
    /\ lifecycle.phase # "active"
    /\ lifecycle.sessions + 1 \in SessionOrdinals
    /\ lifecycle' = [phase |-> "active", sessions |-> lifecycle.sessions + 1]
    /\ session' = NewSession
    /\ call' = [NoCall EXCEPT !.op = "start", !.target = "plank",
                              !.session_id = 1]
    /\ response' = [status |-> 201,
                    body |-> [NoVerdict EXCEPT !.keys = {"success", "session_id",
                                                         "target_pose", "message",
                                                         "started_at"},
                                               !.success = TRUE,
                                               !.message = "Session started successfully"]]
    /\ UNCHANGED <<detVars, ghostDetVars, mp_ok, detector_instance, current_pose,
                   current_detector, n_constructed, verdict, extVars, featVars,
                   built_for, posts, served>>

\* EndSessionView.post: ended_at is written to the row
EndSessionCall ==
    /\ lifecycle.phase = "active"
    /\ lifecycle' = [lifecycle EXCEPT !.phase = "ended"]
    /\ call' = [NoCall EXCEPT !.op = "end", !.session_id = 1]
    /\ response' = [status |-> 200,
                    body |-> [NoVerdict EXCEPT !.keys = {"success", "session_id", "pose",
                                                         "duration_seconds",
                                                         "total_frames", "correct_frames",
                                                         "accuracy", "message"},
                                               !.success = TRUE,
                                               !.pose = "plank",
                                               !.message = "Session ended successfully"]]
    /\ UNCHANGED <<detVars, ghostDetVars, mp_ok, detector_instance, current_pose,
                   current_detector, n_constructed, verdict, session, extVars,
                   featVars, built_for, posts, served>>

\* a frame of the running session, with the session's pose as the target
LifecycleFrameCall ==
    /\ lifecycle.phase = "active"
    /\ \E frame_data \in Frames, target_pose \in {"plank", "NONE"} :
          Handle("process_frame", frame_data, target_pose, 1)

NextLifecycle == StartSessionCall \/ EndSessionCall \/ LifecycleFrameCall

SpecLifecycle == Init /\ [][NextLifecycle]_vars

\* C22 (as claimed; checked under SpecLifecycle): right after a session was
\* ended and the next one started, the stage tracker of the bound detector
\* is in its initial state (so the first error-stage frame of the new
\* session appends an event whatever the last frame before was).
C22_NewSessionStartsReset ==
    (call.op = "start" /\ lifecycle.sessions >= 2)
    => (previous_stage = "unknown" /\ results = <<>> /\ ~has_error)

----------------------------------------------------------------------------
(* Request threads inside PoseDetectionView.post for the existing session. *)
(* The row is read, changed in memory and written back (views.py:57-62);   *)
(* no transaction, lock or F() expression is used.                         *)

\* views.py:41-46: the verdict of the request; a failure verdict returns
PostBegin(t) ==
    /\ posts[t].pc = "idle"
    /\ \E success \in BOOLEAN :
       \E is_correct \in (IF success THEN BOOLEAN ELSE {FALSE}) :
          /\ success => served.success < MaxSessionFrames
          /\ posts' = [posts EXCEPT ![t] = [IdlePost EXCEPT
                          !.pc = IF success THEN "get" ELSE "done",
                          !.success = success,
                          !.is_correct = is_correct]]
          /\ served' = IF success
                       THEN [success |-> served.success + 1,
                             correct |-> served.correct + (IF is_correct THEN 1 ELSE 0)]
                       ELSE served
    /\ UNCHANGED <<detVars, ghostDetVars, orchVars, extVars, featVars, built_for,
                   lifecycle>>

\* views.py:57, YogaSession.objects.get(id=session_id)
PostGet(t) ==
    /\ posts[t].pc = "get"
    /\ posts' = [posts EXCEPT ![t].pc = "save",
                              ![t].total_frames = session.total_frames,
                              ![t].correct_frames = session.correct_frames]
    /\ UNCHANGED <<detVars, ghostDetVars, orchVars, extVars, featVars, built_for,
                   lifecycle, served>>

\* views.py:58-69: the counters are changed on the object read before and
\* the row is written; a PoseDetection row is inserted
PostSave(t) ==
    /\ posts[t].pc = "save"
    /\ \E total \in {posts[t].total_frames + 1},
          correct \in {posts[t].correct_frames + (IF posts[t].is_correct THEN 1 ELSE 0)} :
          session' = [total_frames |-> total,
                      correct_frames |-> correct,
                      accuracy |-> (correct * 100) \div total,
                      detections |-> session.detections + 1]
    /\ posts' = [posts EXCEPT ![t].pc = "done"]
    /\ UNCHANGED <<detVars, ghostDetVars, mp_ok, detector_instance, current_pose,
                   current_detector, n_constructed, verdict, response, call,
                   extVars, featVars, built_for, lifecycle, served>>

\* views.py:74, the response is returned; the thread takes its next request
PostReturn(t) ==
    /\ posts[t].pc = "done"
    /\ posts' = [posts EXCEPT ![t] = IdlePost]
    /\ UNCHANGED <<detVars, ghostDetVars, orchVars, extVars, featVars, built_for,
                   lifecycle, served>>

NextPosts ==
    \E t \in PostThreads :
        \/ PostBegin(t)
        \/ PostGet(t)
        \/ PostSave(t)
        \/ PostReturn(t)

SpecPosts == Init /\ [][NextPosts]_vars

\* C23 (as claimed; checked under SpecPosts): whenever no request is between
\* reading and writing the row, total_frames is the number of requests
\* answered with a success verdict, correct_frames the number of those with
\* is_correct, correct_frames <= total_frames and accuracy is
\* correct_frames / total_frames x 100.
C23_CountersMatchRequests ==
    (\A t \in PostThreads : posts[t].pc \in {"idle", "done"})
    => /\ session.total_frames = served.success
       /\ session.correct_frames = served.correct
       /\ session.correct_frames <= session.total_frames
       /\ session.total_frames > 0
             => session.accuracy
                   = (session.correct_frames * 100) \div session.total_frames

====
